---- MODULE Spec2Model ----
(***************************************************************************)
(* The operation execution engine of rand-o-mania                          *)
(* (src/app/services/execution_engine.py, duplicated in src/main.py) and   *)
(* the HTTP handler that drives it (src/app/routes/api.py).                *)
(*                                                                         *)
(* Numbers.  Python floats are modelled as exact decimal fixed-point       *)
(* numbers plus nan, inf and -inf.  A finite number is an integer count of *)
(* units; Unit units make 1.0.  round(x, 10) keeps 10 decimals in the      *)
(* source; TLC's integers are 32 bits wide, so the model keeps Digits      *)
(* decimals (Scale ticks make 1.0) and carries one further decimal digit   *)
(* below the rounding grid (Tick units make one tick), so that there are   *)
(* numbers that rounding changes.  The equality tolerance 0.0000000001 of  *)
(* the source is one tick of its rounding grid, and is one tick here.      *)
(* A finite result whose magnitude exceeds FloatMax becomes inf, as a      *)
(* double's does beyond its largest finite value.  Binary representation   *)
(* error of doubles and the sign of zero are not modelled.                 *)
(***************************************************************************)
EXTENDS Integers, Sequences, FiniteSets, TLC

\* ------------------------------------------------------------------ bounds
Digits == 1
FloatMax == 8
MaxLen == 2

Scale == 10 ^ Digits
Unit == 10 ^ (Digits + 1)
Tick == Unit \div Scale
MaxUnits == FloatMax * Unit

\* ----------------------------------------------------------------- numbers
Fin(n) == [k |-> "fin", n |-> n]
NaN == [k |-> "nan", n |-> 0]
PInf == [k |-> "inf", n |-> 1]
NInf == [k |-> "inf", n |-> -1]
\* Python's None, the value of `result` before any operation produced one.
None == [k |-> "none", n |-> 0]
Zero == Fin(0)

IsNaN(x) == x.k = "nan"
IsInf(x) == x.k = "inf"
IsFin(x) == x.k = "fin"

Abs(n) == IF n < 0 THEN -n ELSE n
Sgn(n) == IF n < 0 THEN -1 ELSE IF n > 0 THEN 1 ELSE 0

\* The position of a non-nan number on the extended real line.
Ext(x) == IF IsInf(x) THEN x.n * (MaxUnits + 1) ELSE x.n

\* Float comparisons: every comparison with nan is false.
Less(a, b) == ~IsNaN(a) /\ ~IsNaN(b) /\ Ext(a) < Ext(b)
LessEq(a, b) == ~IsNaN(a) /\ ~IsNaN(b) /\ Ext(a) <= Ext(b)
FloatEq(a, b) == ~IsNaN(a) /\ ~IsNaN(b) /\ Ext(a) = Ext(b)

\* p / q (q > 0) rounded to the nearest integer, ties to the even one.
RoundDiv(p, q) ==
    LET f == p \div q
        r == p % q
    IN  IF 2 * r < q THEN f
        ELSE IF 2 * r > q THEN f + 1
        ELSE IF f % 2 = 0 THEN f ELSE f + 1

\* round(p / q units, 10) for q > 0; a quotient beyond the largest finite
\* float is inf before round() sees it, and round() leaves inf alone.
RoundRat(p, q) ==
    IF p > MaxUnits * q THEN PInf
    ELSE IF p < -(MaxUnits * q) THEN NInf
    ELSE Fin(RoundDiv(p, q * Tick) * Tick)

\* round(x, 10)
Round10(x) == IF IsFin(x) THEN RoundRat(x.n, 1) ELSE x

\* The largest s with s * s <= m, by bisection on lo <= s < hi.
RECURSIVE Bisect(_, _, _)
Bisect(lo, hi, m) ==
    IF hi - lo <= 1 THEN lo
    ELSE LET mid == (lo + hi) \div 2
         IN  IF mid * mid <= m THEN Bisect(mid, hi, m) ELSE Bisect(lo, mid, m)

\* 46340 is the largest integer whose square is a 32-bit integer.
ISqrt(m) == Bisect(0, IF m < 46340 THEN m + 1 ELSE 46340, m)

\* round(math.sqrt(n units), 10) for n >= 0: the tick count t nearest to
\* sqrt(n * Unit) / Tick, i.e. (t*Tick - Tick/2)^2 <= n * Unit <= (t*Tick + Tick/2)^2.
RoundSqrt(n) ==
    LET m == 4 * n * Unit
        t == ISqrt(m) \div (2 * Tick)
        h == (2 * t + 1) * Tick
    IN  IF m < h * h THEN Fin(t * Tick)
        ELSE IF m > h * h THEN Fin((t + 1) * Tick)
        ELSE IF t % 2 = 0 THEN Fin(t * Tick) ELSE Fin((t + 1) * Tick)

\* a * b of two floats
FloatMul(a, b) ==
    IF IsNaN(a) \/ IsNaN(b) THEN NaN
    ELSE IF IsInf(a) \/ IsInf(b)
         THEN IF Sgn(a.n) * Sgn(b.n) = 0 THEN NaN
              ELSE IF Sgn(a.n) * Sgn(b.n) > 0 THEN PInf ELSE NInf
    ELSE RoundRat(a.n * b.n, Unit)

\* a / b of two floats, b # 0
FloatDiv(a, b) ==
    IF IsNaN(a) \/ IsNaN(b) THEN NaN
    ELSE IF IsInf(a) /\ IsInf(b) THEN NaN
    ELSE IF IsInf(b) THEN Zero
    ELSE IF IsInf(a) THEN IF a.n * Sgn(b.n) > 0 THEN PInf ELSE NInf
    ELSE RoundRat(Sgn(b.n) * a.n * Unit, Abs(b.n))

\* abs(left - right)
AbsDiff(a, b) ==
    IF IsNaN(a) \/ IsNaN(b) THEN NaN
    ELSE IF IsInf(a) /\ IsInf(b) THEN IF a.n = b.n THEN NaN ELSE PInf
    ELSE IF IsInf(a) \/ IsInf(b) THEN PInf
    ELSE IF Abs(a.n - b.n) > MaxUnits THEN PInf
    ELSE Fin(Abs(a.n - b.n))

\* The tolerance 0.0000000001: one tick of the rounding grid.
EPS == Fin(Tick)

\* ------------------------------------------------------------ JSON values
\* A value reference as the JSON parser delivers it: null (also what
\* op.get(key) gives for an absent key), a number, a string, an integer too
\* large for a float, or a list.
Null == [t |-> "null", n |-> 0, s |-> ""]
NumRef(n) == [t |-> "num", n |-> n, s |-> ""]
StrRef(s) == [t |-> "str", n |-> 0, s |-> s]
BigRef == [t |-> "big", n |-> 0, s |-> ""]
ListRef == [t |-> "list", n |-> 0, s |-> ""]

\* A raised exception, where a number was expected.
Exc(kind) == [k |-> kind, n |-> 0]
IsExc(x) == x.k \notin {"fin", "nan", "inf", "none"}
NoExc == "none"
DivisionByZero == "Division by zero"
NegativeRoot == "Square root of negative number"

\* float(s) of a string, on the strings the model uses: a decimal numeral,
\* "nan", "inf", "-inf", and strings float() rejects with ValueError.
StrToFloat(s) ==
    CASE s = "5" -> Fin(5 * Unit)
      [] s = "0" -> Zero
      [] s = "nan" -> NaN
      [] s = "inf" -> PInf
      [] s = "-inf" -> NInf
      [] OTHER -> Exc("ValueError")

\* float(value)
PyFloat(value) ==
    CASE value.t = "num" -> Fin(value.n)
      [] value.t = "str" -> StrToFloat(value.s)
      [] value.t = "big" -> Exc("OverflowError")
      [] OTHER -> Exc("TypeError")

\* ------------------------------------------------------------------ state
VARIABLES
    pc,              \* process_prompt: "idle", "exec", "returned", "sent"
    variables,       \* engine.variables: a dict, name -> float
    random_numbers,  \* engine.random_numbers
    stack,           \* the activations of execute_operations, outermost first
    exc,             \* the exception propagating out of the engine, or NoExc
    result,          \* process_prompt's local `result`
    response,        \* the HTTP response, once sent
    family,          \* the family the request's operation list is drawn from
    request,         \* the request whose handler is running: 1 or 2
    other            \* the other request in flight, suspended, or NoRequest

vars ==
    <<pc, variables, random_numbers, stack, exc, result, response, family,
      request, other>>

EmptyDict == [x \in {} |-> Zero]
Put(d, key, v) == [x \in DOMAIN d \cup {key} |-> IF x = key THEN v ELSE d[x]]

\* op.get(key)
Get(op, key) == IF key \in DOMAIN op THEN op[key] ELSE Null
\* op.get('type'), as a string
TypeOf(op) == IF "type" \in DOMAIN op THEN op.type ELSE "None"
\* op.get(key, [])
GetList(op, key) == IF key \in DOMAIN op THEN op[key] ELSE <<>>

\* ----------------------------------------------------------- the engine
\* _get_value in the dict env; an OverflowError of float() is not caught.
GetValueIn(env, value) ==
    IF value = Null THEN Zero
    ELSE IF value.t = "str" /\ value.s \in DOMAIN env THEN env[value.s]
    ELSE LET f == PyFloat(value)
         IN  IF f.k \in {"ValueError", "TypeError"} THEN Zero ELSE f

_get_value(value) == GetValueIn(variables, value)

multiply(a, b) == FloatMul(a, b)

divide(a, b) ==
    IF FloatEq(b, Zero) THEN Exc(DivisionByZero)
    ELSE FloatDiv(a, b)

\* Mutant: the sign test also rejects 0.
square_rootRejectsZero(num) ==
    IF LessEq(num, Zero) THEN Exc(NegativeRoot)
    ELSE IF IsFin(num) THEN RoundSqrt(num.n)
    ELSE num

square_root(num) ==
    IF Less(num, Zero) THEN Exc(NegativeRoot)
    ELSE IF IsFin(num) THEN RoundSqrt(num.n)
    ELSE num

\* The comparison _evaluate_condition makes of two resolved operands.
Compare(left, operator, right) ==
    CASE operator = "<" -> Less(left, right)
      [] operator = ">" -> Less(right, left)
      [] operator = "<=" -> LessEq(left, right)
      [] operator = ">=" -> LessEq(right, left)
      [] operator = "==" -> Less(AbsDiff(left, right), EPS)
      [] operator = "!=" -> LessEq(EPS, AbsDiff(left, right))
      [] OTHER -> FALSE

\* An operator that is a JSON array: it equals no string and cannot be a
\* dict key.
ListOperator == "<list>"
\* {'<': ..., '!=': ...}.get(operator, operator) raises on an unhashable key
Hashable(operator) == operator # ListOperator

\* condition.get('operator'), as a string
OperatorOf(condition) ==
    IF "operator" \in DOMAIN condition THEN condition.operator ELSE "None"

\* The exception _evaluate_condition raises on `condition`, or NoExc.
ConditionExc(condition) ==
    LET left == _get_value(Get(condition, "left"))
        right == _get_value(Get(condition, "right"))
    IN  IF IsExc(left) THEN left.k
        ELSE IF IsExc(right) THEN right.k
        ELSE NoExc

_evaluate_condition(condition) ==
    Compare(_get_value(Get(condition, "left")), OperatorOf(condition),
            _get_value(Get(condition, "right")))


\* ------------------------------------------------------ operation universe
\* An operation is a JSON object: a record holding only the keys present.
\* A key is left out when its value below is Null (NoVar for `variable`).
NoVar == ""
Field(key, v) == IF v = Null THEN <<>> ELSE (key :> v)
VarField(v) == IF v = NoVar THEN <<>> ELSE ("variable" :> v)

\* Raw draws of random.random(), in units: 0 <= raw < 1.0.
Draws == {Unit \div 4, Unit - 1}

RefsAll ==
    {Null, NumRef(-Unit), NumRef(0), NumRef(2 * Unit), NumRef(Unit + 1),
     StrRef("x"), StrRef("5"), StrRef("0"), StrRef("yes"), StrRef("nan"),
     BigRef, ListRef}
RefsFew == {Null, NumRef(2 * Unit), StrRef("x"), BigRef}
VarOpts == {NoVar, "x"}

GenOps == {[type |-> "generate_random"] @@ VarField(v) : v \in VarOpts}
MulOps ==
    {[type |-> "multiply"] @@ Field("a", a) @@ Field("b", b) @@ VarField(v) :
        a \in RefsFew, b \in RefsFew, v \in VarOpts}
DivOps ==
    {[type |-> "divide"] @@ Field("a", a) @@ Field("b", b) @@ VarField(v) :
        a \in RefsFew, b \in RefsAll, v \in VarOpts}
SqrtOps ==
    {[type |-> "square_root"] @@ Field("num", n) @@ VarField(v) :
        n \in RefsAll, v \in VarOpts}
AssignOps ==
    {[type |-> "assign"] @@ Field("value", r) @@ VarField(v) :
        r \in RefsAll, v \in {NoVar, "x", "5"}}
OtherOps ==
    {[type |-> "print"], [a |-> NumRef(0)], [type |-> "print", variable |-> "x"]}
LeafOps == GenOps \cup MulOps \cup DivOps \cup SqrtOps \cup AssignOps \cup OtherOps

Conditions ==
    {[left |-> StrRef("x"), operator |-> o, right |-> NumRef(Unit \div 2)] :
        o \in {"<", ">", "<=", ">=", "==", "!=", "~", ListOperator}}
    \cup {[left |-> BigRef, operator |-> "<"],
          [left |-> StrRef("x"), right |-> NumRef(Unit \div 2)]}

\* What a branch of a conditional may hold: the empty list, one or two of a
\* few leaves, or a conditional one level further down.
\* Of a conditional's two branches one is drawn from Branches and the other
\* from Stubs.
InnerLists ==
    {<<>>,
     <<[type |-> "generate_random", variable |-> "x"]>>,
     <<[type |-> "print"], [type |-> "divide", a |-> NumRef(Unit)],
       [type |-> "generate_random"]>>}
InnerConds ==
    {[type |-> "conditional", if_true |-> t, if_false |-> f,
      condition |-> [left |-> StrRef("x"), operator |-> ">=", right |-> NumRef(Unit)]] :
        t \in InnerLists, f \in InnerLists}
BranchOps ==
    {[type |-> "generate_random"],
     [type |-> "assign", value |-> NumRef(2 * Unit), variable |-> "x"],
     [type |-> "square_root", num |-> NumRef(-Unit)],
     [type |-> "print"]}
Branches ==
    {<<>>} \cup {<<a>> : a \in BranchOps} \cup {<<a, b>> : a \in BranchOps, b \in BranchOps}
    \cup {<<c>> : c \in InnerConds}
Stubs == {<<>>, <<[type |-> "generate_random", variable |-> "x"]>>}
BranchPairs == (Branches \X Stubs) \cup (Stubs \X Branches)
MkCond(c, t, f, v) ==
    [type |-> "conditional", condition |-> c] @@ VarField(v)
        @@ (IF t = <<>> THEN <<>> ELSE ("if_true" :> t))
        @@ (IF f = <<>> THEN <<>> ELSE ("if_false" :> f))
\* Conditionals with no `condition` key, with short branches, with long ones.
BareConds == {[type |-> "conditional"] @@ VarField(v) : v \in VarOpts}
StubConds ==
    {MkCond(c, t, f, v) : c \in Conditions, t \in Stubs, f \in Stubs, v \in VarOpts}
TreeConditions ==
    {[left |-> StrRef("x"), operator |-> o, right |-> NumRef(Unit \div 2)] :
        o \in {"<", "~"}}
TreeConds ==
    {MkCond(c, p[1], p[2], v) : c \in TreeConditions, p \in BranchPairs, v \in VarOpts}
SetupOps ==
    {[type |-> "generate_random", variable |-> "x"],
     [type |-> "assign", value |-> NumRef(Unit \div 2), variable |-> "x"],
     [type |-> "print"]}

\* The operations a request's list may hold.  The lists come in two
\* families: "leaf" lists hold every leaf operation and conditionals with
\* short branches, "tree" lists hold a few leaves and every conditional.
Families == {"leaf", "tree"}
\* Two requests in flight draw their lists from two small families: "mixed"
\* lists hold one operation of each type, "plain" lists draw and assign x.
MixedOps ==
    {[type |-> "generate_random"],
     [type |-> "multiply", a |-> StrRef("x"), b |-> NumRef(2 * Unit),
      variable |-> "y"],
     [type |-> "divide", a |-> NumRef(2 * Unit), b |-> StrRef("x")],
     [type |-> "square_root", num |-> NumRef(-Unit)],
     [type |-> "assign", value |-> NumRef(Unit + 1), variable |-> "x"],
     [type |-> "print"],
     MkCond([left |-> StrRef("x"), operator |-> ">", right |-> NumRef(Unit)],
            <<[type |-> "generate_random", variable |-> "x"]>>, <<>>, "z"),
     MkCond([left |-> StrRef("x"), operator |-> "<", right |-> NumRef(Unit)],
            <<MkCond([left |-> StrRef("x"), operator |-> ">=", right |-> NumRef(Unit)],
                     <<>>,
                     <<[type |-> "print"], [type |-> "generate_random"]>>,
                     NoVar)>>,
            <<>>, NoVar)}
PlainOps ==
    {[type |-> "generate_random", variable |-> "x"],
     [type |-> "assign", value |-> NumRef(2 * Unit), variable |-> "x"]}
TopOps(fam) ==
    CASE fam = "leaf" -> LeafOps \cup BareConds \cup StubConds
      [] fam = "tree" -> SetupOps \cup BareConds \cup TreeConds
      [] fam = "mixed" -> MixedOps
      [] fam = "plain" -> PlainOps

\* ---------------------------------------------------------------- actions
\* An activation of execute_operations: its argument, the number of loop
\* iterations begun, and its locals `result` and `op`.  The outermost
\* activation's list is the request's: the model draws it one operation at
\* a time, at most MaxLen of them, and keeps <<>> in `operations`.
\* Two fields record history: `values` holds, for each operation the
\* activation completed, the value it produced (None when it produced
\* none); `written` holds the variable names assigned while the activation
\* was running, in it or in the activations it called.
Unbound == [type |-> "<unbound>"]
Activation(ops) ==
    [operations |-> ops, idx |-> 0, result |-> None, op |-> Unbound,
     values |-> <<>>, written |-> {}]

Depth == Len(stack)
Top == stack[Depth]
Running == pc = "exec" /\ exc = NoExc /\ Depth > 0

\* The operations the loop's next iteration may bind to `op`.
NextOps ==
    IF ~Running THEN {}
    ELSE IF Depth = 1 THEN IF Top.idx < MaxLen THEN TopOps(family) ELSE {}
    ELSE IF Top.idx < Len(Top.operations) THEN {Top.operations[Top.idx + 1]}
    ELSE {}

\* The list is exhausted: the loop ends.
AtEnd == Depth = 1 \/ Top.idx = Len(Top.operations)

Bind(op) == [Top EXCEPT !.idx = @ + 1, !.op = op]
Replace(f) == [stack EXCEPT ![Depth] = f]

\* if 'variable' in op: self.variables[op['variable']] = v
Store(op, v) ==
    IF "variable" \in DOMAIN op THEN Put(variables, op.variable, v) ELSE variables
Named(op) == IF "variable" \in DOMAIN op THEN {op.variable} ELSE {}

\* Mutant: storing a result rebuilds the environment with that binding only.
ProduceRebuilds(op, v) ==
    /\ stack' = Replace([Bind(op) EXCEPT !.result = v,
                                         !.values = Append(@, v),
                                         !.written = @ \cup Named(op)])
    /\ variables' = IF "variable" \in DOMAIN op THEN Put(EmptyDict, op.variable, v)
                    ELSE variables
    /\ exc' = exc

\* The operation yields v: result = v, stored when it names a variable.
Produce(op, v) ==
    /\ stack' = Replace([Bind(op) EXCEPT !.result = v,
                                         !.values = Append(@, v),
                                         !.written = @ \cup Named(op)])
    /\ variables' = Store(op, v)
    /\ exc' = exc

\* The operation raises: nothing is assigned, the exception propagates.
Raise(op, kind) ==
    /\ stack' = Replace(Bind(op))
    /\ exc' = kind
    /\ variables' = variables

\* generate_random(), on the raw draw of random.random()
generate_random(raw) == Round10(Fin(raw))


\* elif-chain of execute_operations, one action per branch --------------

\* Mutant: a draw that is not stored in a variable is not recorded.
OpGenerateRandomUnrecorded ==
    \E op \in NextOps, raw \in Draws :
        /\ Running
        /\ TypeOf(op) = "generate_random"
        /\ random_numbers' = IF "variable" \in DOMAIN op
                              THEN Append(random_numbers, generate_random(raw))
                              ELSE random_numbers
        /\ Produce(op, generate_random(raw))
        /\ UNCHANGED <<pc, result, response, family, request, other>>

OpGenerateRandom ==
    \E op \in NextOps, raw \in Draws :
        /\ Running
        /\ TypeOf(op) = "generate_random"
        /\ random_numbers' = Append(random_numbers, generate_random(raw))
        /\ Produce(op, generate_random(raw))
        /\ UNCHANGED <<pc, result, response, family, request, other>>

OpMultiply ==
    \E op \in NextOps :
        /\ Running
        /\ TypeOf(op) = "multiply"
        /\ LET a == _get_value(Get(op, "a"))
               b == _get_value(Get(op, "b"))
           IN  IF IsExc(a) THEN Raise(op, a.k)
               ELSE IF IsExc(b) THEN Raise(op, b.k)
               ELSE Produce(op, multiply(a, b))
        /\ UNCHANGED <<pc, random_numbers, result, response, family, request, other>>

OpDivide ==
    \E op \in NextOps :
        /\ Running
        /\ TypeOf(op) = "divide"
        /\ LET a == _get_value(Get(op, "a"))
               b == _get_value(Get(op, "b"))
           IN  IF IsExc(a) THEN Raise(op, a.k)
               ELSE IF IsExc(b) THEN Raise(op, b.k)
               ELSE IF IsExc(divide(a, b)) THEN Raise(op, divide(a, b).k)
               ELSE Produce(op, divide(a, b))
        /\ UNCHANGED <<pc, random_numbers, result, response, family, request, other>>

OpSquareRoot ==
    \E op \in NextOps :
        /\ Running
        /\ TypeOf(op) = "square_root"
        /\ LET num == _get_value(Get(op, "num"))
           IN  IF IsExc(num) THEN Raise(op, num.k)
               ELSE IF IsExc(square_root(num)) THEN Raise(op, square_root(num).k)
               ELSE Produce(op, square_root(num))
        /\ UNCHANGED <<pc, random_numbers, result, response, family, request, other>>

\* The conditional up to its recursive call: the selected branch starts.
OpConditional ==
    \E op \in NextOps :
        /\ Running
        /\ TypeOf(op) = "conditional"
        /\ IF "condition" \notin DOMAIN op THEN Raise(op, "AttributeError")
           ELSE IF ConditionExc(op.condition) # NoExc
                THEN Raise(op, ConditionExc(op.condition))
           ELSE IF ~Hashable(OperatorOf(op.condition))
                THEN Raise(op, "TypeError")
           ELSE /\ stack' = Append(Replace(Bind(op)),
                        Activation(IF _evaluate_condition(op.condition)
                                   THEN GetList(op, "if_true")
                                   ELSE GetList(op, "if_false")))
                /\ UNCHANGED <<variables, exc>>
        /\ UNCHANGED <<pc, random_numbers, result, response, family, request, other>>

\* src/main.py, the conditional branch of its execute_operations: the
\* condition is evaluated and one branch is entered.
MainOpConditional ==
    \E op \in NextOps :
        /\ Running
        /\ TypeOf(op) = "conditional"
        /\ IF "condition" \notin DOMAIN op THEN Raise(op, "AttributeError")
           ELSE IF ConditionExc(op.condition) # NoExc
                THEN Raise(op, ConditionExc(op.condition))
           ELSE /\ stack' = Append(Replace(Bind(op)),
                        Activation(IF _evaluate_condition(op.condition)
                                   THEN GetList(op, "if_true")
                                   ELSE GetList(op, "if_false")))
                /\ UNCHANGED <<variables, exc>>
        /\ UNCHANGED <<pc, random_numbers, result, response, family, request, other>>

OpAssign ==
    \E op \in NextOps :
        /\ Running
        /\ TypeOf(op) = "assign"
        /\ LET value == _get_value(Get(op, "value"))
           IN  IF IsExc(value) THEN Raise(op, value.k)
               ELSE IF "variable" \notin DOMAIN op THEN Raise(op, "KeyError")
               ELSE Produce(op, value)
        /\ UNCHANGED <<pc, random_numbers, result, response, family, request, other>>

\* Mutant: the else branch also clears `result`.
OpUnknownResets ==
    \E op \in NextOps :
        /\ Running
        /\ TypeOf(op) \notin {"generate_random", "multiply", "divide",
                              "square_root", "conditional", "assign"}
        /\ stack' = Replace([Bind(op) EXCEPT !.result = None,
                                             !.values = Append(@, None)])
        /\ UNCHANGED <<pc, variables, random_numbers, exc, result, response, family, request, other>>

\* Mutant: an unrecognized operation naming a variable clears it.
OpUnknownStores ==
    \E op \in NextOps :
        /\ Running
        /\ TypeOf(op) \notin {"generate_random", "multiply", "divide",
                              "square_root", "conditional", "assign"}
        /\ stack' = Replace([Bind(op) EXCEPT !.values = Append(@, None)])
        /\ variables' = Store(op, Zero)
        /\ UNCHANGED <<pc, random_numbers, exc, result, response, family, request, other>>

\* The else branch: an unrecognized type is logged and skipped.
OpUnknown ==
    \E op \in NextOps :
        /\ Running
        /\ TypeOf(op) \notin {"generate_random", "multiply", "divide",
                              "square_root", "conditional", "assign"}
        /\ stack' = Replace([Bind(op) EXCEPT !.values = Append(@, None)])
        /\ UNCHANGED <<pc, variables, random_numbers, exc, result, response, family, request, other>>

\* return result if result is not None else 0.0
ReturnValue(f) == IF f.result = None THEN Zero ELSE f.result

\* Mutant: a branch that produced no value leaves the conditional without
\* a value: the running result and the named variable stay as they were.
ReturnToConditionalKeeps ==
    /\ Running
    /\ Depth > 1
    /\ AtEnd
    /\ LET caller == stack[Depth - 1]
           ret == IF Top.result = None THEN caller.result ELSE Top.result
       IN  /\ stack' = [SubSeq(stack, 1, Depth - 1) EXCEPT
                            ![Depth - 1] =
                                [caller EXCEPT !.result = ret,
                                               !.values = Append(@, ret),
                                               !.written = @ \cup Top.written
                                                             \cup Named(caller.op)]]
           /\ variables' = IF Top.result = None THEN variables
                           ELSE Store(caller.op, ret)
    /\ UNCHANGED <<pc, random_numbers, exc, result, response, family, request, other>>

\* Mutant: a branch is a scope of its own; what it wrote is reset when it
\* returns.
ReturnToConditionalScoped ==
    /\ Running
    /\ Depth > 1
    /\ AtEnd
    /\ LET caller == stack[Depth - 1]
           ret == ReturnValue(Top)
           kept == [n \in DOMAIN variables |->
                       IF n \in Top.written THEN Zero ELSE variables[n]]
       IN  /\ stack' = [SubSeq(stack, 1, Depth - 1) EXCEPT
                            ![Depth - 1] =
                                [caller EXCEPT !.result = ret,
                                               !.values = Append(@, ret),
                                               !.written = @ \cup Top.written
                                                             \cup Named(caller.op)]]
           /\ variables' = IF "variable" \in DOMAIN caller.op
                           THEN Put(kept, caller.op.variable, ret)
                           ELSE kept
    /\ UNCHANGED <<pc, random_numbers, exc, result, response, family, request, other>>

\* Mutant: the conditional swallows an exception of its branch and goes on
\* with 0.0.
ReturnToConditionalSwallows ==
    /\ pc = "exec"
    /\ Depth > 1
    /\ \/ exc # NoExc
       \/ Top.idx = Len(Top.operations)
    /\ LET caller == stack[Depth - 1]
           ret == IF exc # NoExc THEN Zero ELSE IF Top.result = None THEN Zero ELSE Top.result
       IN  /\ stack' = [SubSeq(stack, 1, Depth - 1) EXCEPT
                            ![Depth - 1] =
                                [caller EXCEPT !.result = ret,
                                               !.values = Append(@, ret),
                                               !.written = @ \cup Top.written
                                                             \cup Named(caller.op)]]
           /\ variables' = Store(caller.op, ret)
    /\ exc' = NoExc
    /\ UNCHANGED <<pc, random_numbers, result, response, family, request, other>>

\* A branch's activation returns into the conditional that called it, which
\* takes the value as its result and stores it when it names a variable.
ReturnToConditional ==
    /\ Running
    /\ Depth > 1
    /\ AtEnd
    /\ LET caller == stack[Depth - 1]
           ret == ReturnValue(Top)
       IN  /\ stack' = [SubSeq(stack, 1, Depth - 1) EXCEPT
                            ![Depth - 1] =
                                [caller EXCEPT !.result = ret,
                                               !.values = Append(@, ret),
                                               !.written = @ \cup Top.written
                                                             \cup Named(caller.op)]]
           /\ variables' = Store(caller.op, ret)
    /\ UNCHANGED <<pc, random_numbers, exc, result, response, family, request, other>>

\* Mutant: a list none of whose operations produced a value never returns.
ReturnToHandlerHangs ==
    /\ Running
    /\ Depth = 1
    /\ AtEnd
    /\ Top.result # None
    /\ stack' = <<>>
    /\ result' = ReturnValue(Top)
    /\ pc' = "returned"
    /\ UNCHANGED <<variables, random_numbers, exc, response, family, request, other>>

\* The outermost activation returns to process_prompt.
ReturnToHandler ==
    /\ Running
    /\ Depth = 1
    /\ AtEnd
    /\ stack' = <<>>
    /\ result' = ReturnValue(Top)
    /\ pc' = "returned"
    /\ UNCHANGED <<variables, random_numbers, exc, response, family, request, other>>

\* process_prompt -----------------------------------------------------------

\* No other request is in flight.
NoRequest == [pc |-> "none"]

\* Mutant: the environment and the trace belong to the class: a new engine
\* starts from what the other request's engine holds.
StartExecutionShared ==
    /\ pc = "idle"
    /\ pc' = "exec"
    /\ variables' = IF other = NoRequest THEN EmptyDict ELSE other.variables
    /\ random_numbers' = IF other = NoRequest THEN <<>> ELSE other.random_numbers
    /\ stack' = <<Activation(<<>>)>>
    /\ UNCHANGED <<exc, result, response, family, request, other>>

\* engine = ExecutionEngine(); engine.execute_operations(operations)
StartExecution ==
    /\ pc = "idle"
    /\ pc' = "exec"
    /\ variables' = EmptyDict
    /\ random_numbers' = <<>>
    /\ stack' = <<Activation(<<>>)>>
    /\ UNCHANGED <<exc, result, response, family, request, other>>

\* Mutant: the handler passes the engine's value on as it is.
SendResponseUnrounded ==
    /\ pc = "returned"
    /\ pc' = "sent"
    /\ result' = result
    /\ response' = [status_code |-> 200, result |-> result,
                    random_integers |-> random_numbers]
    /\ UNCHANGED <<variables, random_numbers, stack, exc, family, request, other>>

\* result = round(result, 10); return PromptResponse(...)
SendResponse ==
    /\ pc = "returned"
    /\ pc' = "sent"
    /\ result' = Round10(result)
    /\ response' = [status_code |-> 200, result |-> Round10(result),
                    random_integers |-> random_numbers]
    /\ UNCHANGED <<variables, random_numbers, stack, exc, family, request, other>>

\* except Exception as e: raise HTTPException(status_code=400, detail=str(e))
SendError ==
    /\ pc = "exec"
    /\ exc # NoExc
    /\ pc' = "sent"
    /\ stack' = <<>>
    /\ response' = [status_code |-> 400, detail |-> exc]
    /\ UNCHANGED <<variables, random_numbers, exc, result, family, request, other>>

NoResponse == [status_code |-> 0]

\* Two requests in flight ----------------------------------------------------
\* Each request's handler has its own locals and its own engine, built by
\* ExecutionEngine() with its own dict and list.  The request that is not
\* running is kept in `other`, as it was when it was suspended.
Suspended ==
    [pc |-> pc, variables |-> variables, random_numbers |-> random_numbers,
     stack |-> stack, exc |-> exc, result |-> result, response |-> response,
     family |-> family]
Received(fam) ==
    [pc |-> "idle", variables |-> EmptyDict, random_numbers |-> <<>>,
     stack |-> <<>>, exc |-> NoExc, result |-> None, response |-> NoResponse,
     family |-> fam]

\* The running request is suspended and the other one goes on.
Switch ==
    /\ other # NoRequest
    /\ other.pc # "sent"
    /\ other' = Suspended
    /\ request' = 3 - request
    /\ pc' = other.pc
    /\ variables' = other.variables
    /\ random_numbers' = other.random_numbers
    /\ stack' = other.stack
    /\ exc' = other.exc
    /\ result' = other.result
    /\ response' = other.response
    /\ family' = other.family

Init ==
    /\ pc = "idle"
    /\ variables = EmptyDict
    /\ random_numbers = <<>>
    /\ stack = <<>>
    /\ exc = NoExc
    /\ result = None
    /\ response = NoResponse
    /\ family \in Families
    /\ request = 1
    /\ other = NoRequest

Next ==
    \/ StartExecution
    \/ OpGenerateRandom
    \/ OpMultiply
    \/ OpDivide
    \/ OpSquareRoot
    \/ OpConditional
    \/ OpAssign
    \/ OpUnknown
    \/ ReturnToConditional
    \/ ReturnToHandler
    \/ SendResponse
    \/ SendError

Spec == Init /\ [][Next]_vars

\* execute_operations is one synchronous call: the interpreter keeps taking
\* its steps until it returns or raises, and the handler then answers.
InitFair ==
    /\ pc = "idle"
    /\ variables = EmptyDict
    /\ random_numbers = <<>>
    /\ stack = <<>>
    /\ exc = NoExc
    /\ result = None
    /\ response = NoResponse
    /\ family = "mixed"
    /\ request = 1
    /\ other = NoRequest

FairSpec == InitFair /\ [][Next]_vars /\ WF_vars(Next)

\* src/main.py: a step of its engine.  Apart from the conditional branch
\* its methods read as those of app/services/execution_engine.py, without
\* the logging; it has no else branch, so an unrecognized type is skipped.
MainEngineStep ==
    \/ OpGenerateRandom
    \/ OpMultiply
    \/ OpDivide
    \/ OpSquareRoot
    \/ MainOpConditional
    \/ OpAssign
    \/ OpUnknown
    \/ ReturnToConditional
    \/ ReturnToHandler

\* Two requests are received; their handlers' steps interleave.
InitTwo ==
    /\ pc = "idle"
    /\ variables = EmptyDict
    /\ random_numbers = <<>>
    /\ stack = <<>>
    /\ exc = NoExc
    /\ result = None
    /\ response = NoResponse
    /\ family = "mixed"
    /\ request = 1
    /\ other = Received("plain")

NextTwo ==
    \/ Next
    \/ Switch

SpecTwo == InitTwo /\ [][NextTwo]_vars

\* ================================================================ claims

\* An activation returns: it leaves the stack and no exception is raised.
ReturnStep == Running /\ exc' = NoExc /\ Len(stack') = Depth - 1
\* The value the returning activation hands to its caller.
Returned == IF Depth = 1 THEN result' ELSE stack'[Depth - 1].result
\* The value of the last operation that produced one, 0.0 when none did.
LastValue(vals) ==
    IF \A i \in DOMAIN vals : vals[i] = None THEN Zero
    ELSE vals[CHOOSE i \in DOMAIN vals :
                /\ vals[i] # None
                /\ \A j \in DOMAIN vals : j > i => vals[j] = None]
\* Every activation of a branch has bound to `op` the elements of its list,
\* one after the other from the first.
InListOrder ==
    \A i \in 2..Depth :
        /\ stack[i].idx <= Len(stack[i].operations)
        /\ stack[i].idx >= 1 => stack[i].op = stack[i].operations[stack[i].idx]

\* C1: execute_operations processes the operations in list order, every one
\* of them before it returns, and returns the value of the last operation
\* that produced one (a conditional's value being its recursive call's
\* return value), or 0.0 when the list is empty or no operation produced a
\* value.
C1_ReturnsLastValue ==
    [][/\ InListOrder'
       /\ ReturnStep =>
            /\ Returned = LastValue(Top.values)
            /\ Depth > 1 => /\ Top.idx = Len(Top.operations)
                            /\ Len(Top.values) = Len(Top.operations)]_vars

\* A conditional has returned 2.0 from the branch <<assign x 2.0, print>>:
\* the value of the assign, not of the unrecognized operation after it.
C1_Witness ==
    /\ Depth = 1
    /\ TypeOf(Top.op) = "conditional"
    /\ Len(Top.values) = Top.idx
    /\ GetList(Top.op, "if_true") =
         <<[type |-> "assign", value |-> NumRef(2 * Unit), variable |-> "x"],
           [type |-> "print"]>>
    /\ Top.result = Fin(2 * Unit)

\* The current activation completes or fails one operation of type `type`.
OpStep(type) ==
    /\ Running
    /\ Len(stack') = Depth
    /\ stack'[Depth].idx = Top.idx + 1
    /\ TypeOf(stack'[Depth].op) = type
\* The operation that step executes.
StepOp == stack'[Depth].op

\* The strings of the model that float() accepts.
NumericStrings == {"5", "0", "nan", "inf", "-inf"}
\* The reference names no variable of env and is no number: it is absent, a
\* list, or a string that is neither a variable of env nor numeric.
Unresolvable(env, ref) ==
    \/ ref \in {Null, ListRef}
    \/ ref.t = "str" /\ ref.s \notin DOMAIN env /\ ref.s \notin NumericStrings
\* The reference resolves to 0 in env: it is unresolvable, the literal 0 or
\* "0", or a variable holding 0.
ResolvesToZero(env, ref) ==
    \/ Unresolvable(env, ref)
    \/ ref.t = "num" /\ ref.n = 0
    \/ ref.t = "str" /\ ref.s \notin DOMAIN env /\ ref.s = "0"
    \/ ref.t = "str" /\ ref.s \in DOMAIN env /\ env[ref.s] = Zero
\* No partial effect: the step leaves the environment, the trace and the
\* running result, history included, as they were.
NoEffect ==
    /\ variables' = variables
    /\ random_numbers' = random_numbers
    /\ stack'[Depth].result = Top.result
    /\ stack'[Depth].values = Top.values
    /\ stack'[Depth].written = Top.written

\* C2: a divide fails with Division by zero exactly when its second operand
\* resolves to 0 (literal 0, absent b, unknown variable, non-numeric string,
\* variable holding 0), for every first operand; the failing divide
\* produces no result and does not write its variable.
C2_DivideByZero ==
    [][OpStep("divide") =>
         /\ exc' = DivisionByZero <=> ResolvesToZero(variables, Get(StepOp, "b"))
         /\ exc' = DivisionByZero => NoEffect]_vars

Negative(v) == (IsFin(v) /\ v.n < 0) \/ v = NInf
NonNegative(v) == (IsFin(v) /\ v.n >= 0) \/ v = PInf
\* r is the square root of v rounded to the grid: r is a whole number of
\* ticks at most half a tick away from the root.
IsRoundedSqrt(v, r) ==
    IF v = PInf THEN r = PInf
    ELSE /\ IsFin(r)
         /\ r.n >= 0
         /\ r.n % Tick = 0
         /\ (2 * r.n + Tick) * (2 * r.n + Tick) >= 4 * v.n * Unit
         /\ 2 * r.n >= Tick => (2 * r.n - Tick) * (2 * r.n - Tick) <= 4 * v.n * Unit

\* C3: a square_root fails with the negative-radicand error exactly when its
\* operand resolves to a value below 0; on an operand resolving to 0 or more
\* (an absent or unresolvable num resolves to 0.0) it does not fail and its
\* result is the square root rounded to the grid.
C3_SquareRoot ==
    [][OpStep("square_root") =>
         LET num == Get(StepOp, "num")
             v == _get_value(num)
         IN  /\ exc' = NegativeRoot <=> (~IsExc(v) /\ Negative(v))
             /\ Unresolvable(variables, num) => v = Zero
             /\ (~IsExc(v) /\ NonNegative(v)) =>
                  /\ exc' = NoExc
                  /\ IsRoundedSqrt(v, stack'[Depth].result)
                  /\ variables' = Store(StepOp, stack'[Depth].result)]_vars

\* The square root of the literal 2.0 has been taken: a value above 1.0
\* that rounding had to cut.
C3_Witness ==
    /\ exc = NoExc
    /\ Depth = 1
    /\ TypeOf(Top.op) = "square_root"
    /\ Get(Top.op, "num") = NumRef(2 * Unit)
    /\ IsFin(Top.result)
    /\ Top.result.n > Unit
    /\ Top.result.n * Top.result.n # 2 * Unit * Unit

\* C4: Division by zero and the negative-radicand error are the only
\* exceptions execute_operations raises; every other malformed operation is
\* absorbed.
C4_OnlyNumericFailures == exc \in {NoExc, DivisionByZero, NegativeRoot}

Failed == exc \in {DivisionByZero, NegativeRoot}

\* C5: when Division by zero or the negative-radicand error occurs, at any
\* depth, the failing operation has no effect, no operation runs after it
\* in any activation, the environment and the trace stay as they were, and
\* the only response the handler sends is the error with status 400,
\* holding neither result nor trace.
C5_FailureAborts ==
    [][/\ (exc = NoExc /\ Failed') =>
            /\ NoEffect
            /\ \A i \in 1..(Depth - 1) : stack'[i] = stack[i]
       /\ Failed =>
            /\ exc' = exc
            /\ variables' = variables
            /\ random_numbers' = random_numbers
            /\ result' = result
            /\ stack' \in {stack, <<>>}
            /\ pc' \in {pc, "sent"}
            /\ response' \in {response, [status_code |-> 400, detail |-> exc]}
       /\ response'.status_code = 200 => exc' = NoExc]_vars

\* A divide two conditionals deep has failed after a draw was recorded.
C5_Witness ==
    /\ exc = DivisionByZero
    /\ Depth = 3
    /\ TypeOf(Top.op) = "divide"
    /\ Top.idx < Len(Top.operations)
    /\ random_numbers # <<>>

\* The references an operation of each type resolves.
Operands(type) ==
    CASE type \in {"multiply", "divide"} -> {"a", "b"}
      [] type = "square_root" -> {"num"}
      [] type = "assign" -> {"value"}
      [] OTHER -> {}
\* The value the reference has in env: 0.0 when absent, the variable's value
\* when it names one, else its numeric coercion, 0.0 when that fails.
Resolved(env, ref) ==
    IF ref = Null THEN Zero
    ELSE IF ref.t = "str" /\ ref.s \in DOMAIN env THEN env[ref.s]
    ELSE IF ref.t = "num" THEN Fin(ref.n)
    ELSE IF ref.t = "str" /\ ref.s \in NumericStrings THEN StrToFloat(ref.s)
    ELSE Zero

\* C6: _get_value never raises: on every operand of every executed
\* operation it yields 0.0 for an absent reference, the variable's current
\* value for a name of the environment (before any numeric coercion of the
\* name), and otherwise the numeric coercion, 0.0 when coercion fails.
C6_GetValueTotal ==
    [][\A type \in {"multiply", "divide", "square_root", "assign"} :
         OpStep(type) =>
           \A key \in Operands(type) :
             LET v == _get_value(Get(StepOp, key))
             IN  /\ ~IsExc(v)
                 /\ v = Resolved(variables, Get(StepOp, key))]_vars

\* A conditional evaluates its condition and enters one of its branches.
ConditionalEnters == Running /\ exc' = NoExc /\ Len(stack') = Depth + 1
\* The conditional that step executes, and the list it enters.
EnteredOp == stack'[Depth].op
EnteredList == stack'[Depth + 1].operations

\* C7: a condition resolves left and right; == is true exactly when
\* |left - right| < EPS, != exactly when |left - right| >= EPS, so exactly
\* one of == and != holds for every pair of operands; <, >, <=, >= are the
\* plain comparisons; any other operator is false and the conditional
\* enters if_false.
C7_Conditions ==
    [][ConditionalEnters =>
         LET c == EnteredOp.condition
             left == Resolved(variables, Get(c, "left"))
             right == Resolved(variables, Get(c, "right"))
             o == OperatorOf(c)
             near == Less(AbsDiff(left, right), EPS)
             far == LessEq(EPS, AbsDiff(left, right))
             holds == CASE o = "==" -> near
                        [] o = "!=" -> far
                        [] o = "<" -> Less(left, right)
                        [] o = ">" -> Less(right, left)
                        [] o = "<=" -> LessEq(left, right)
                        [] o = ">=" -> LessEq(right, left)
                        [] OTHER -> FALSE
         IN  /\ EnteredList = IF holds THEN GetList(EnteredOp, "if_true")
                              ELSE GetList(EnteredOp, "if_false")
             /\ near # far]_vars

\* An activation runs the operations of its own list only, each once: after
\* k completed steps it has gone through exactly the first k of them (an
\* enclosing activation is inside its next one, a conditional).
OwnListOnly ==
    \A i \in 2..Depth :
        /\ stack[i].idx <= Len(stack[i].operations)
        /\ (i = Depth /\ exc = NoExc) => Len(stack[i].values) = stack[i].idx
        /\ i < Depth => Len(stack[i].values) = stack[i].idx - 1
\* The conditional enters if_true when its condition holds in the state
\* just before it, otherwise if_false, at the start of that list.
EntersSelected ==
    ConditionalEnters =>
        /\ EnteredList = IF _evaluate_condition(EnteredOp.condition)
                         THEN GetList(EnteredOp, "if_true")
                         ELSE GetList(EnteredOp, "if_false")
        /\ stack'[Depth + 1].idx = 0
        /\ stack'[Depth + 1].written = {}
        /\ variables' = variables
\* A branch returns to its conditional.
BranchReturns == ReturnStep /\ Depth > 1

\* C8 as stated: one flat namespace; a conditional runs exactly one branch,
\* selected by the condition in the state just before it, and no operation
\* of the other; every variable written in the branch keeps that value
\* after the conditional returns.
C8_BranchWritesKept ==
    [][/\ OwnListOnly' /\ InListOrder'
       /\ EntersSelected
       /\ BranchReturns =>
            /\ Top.idx = Len(Top.operations)
            /\ \A n \in Top.written :
                 n \in DOMAIN variables' /\ variables'[n] = variables[n]]_vars

\* C8 amended: as above, except that the variable the conditional itself
\* names takes the branch's return value when the conditional returns,
\* whatever the branch wrote to it.
C8_BranchWritesKeptButOwn ==
    [][/\ OwnListOnly' /\ InListOrder'
       /\ EntersSelected
       /\ BranchReturns =>
            /\ Top.idx = Len(Top.operations)
            /\ \A n \in Top.written \ Named(stack[Depth - 1].op) :
                 n \in DOMAIN variables' /\ variables'[n] = variables[n]
            /\ \A n \in Named(stack[Depth - 1].op) :
                 n \in DOMAIN variables' /\ variables'[n] = Returned]_vars

\* A conditional naming x has returned from a branch that assigned 2.0 to x
\* and then drew a number: x holds the draw.
C8_Witness ==
    /\ exc = NoExc
    /\ Depth = 1
    /\ TypeOf(Top.op) = "conditional"
    /\ Len(Top.values) = Top.idx
    /\ Named(Top.op) = {"x"}
    /\ \E b \in {"if_true", "if_false"} :
         GetList(Top.op, b) =
             <<[type |-> "assign", value |-> NumRef(2 * Unit), variable |-> "x"],
               [type |-> "generate_random"]>>
    /\ Len(random_numbers) > 0
    /\ variables["x"] = random_numbers[Len(random_numbers)]
    /\ variables["x"] # Fin(2 * Unit)

\* C9: the trace grows by exactly one entry, the value drawn, at each
\* generate_random executed, at any depth and with or without a variable,
\* and no other step changes it: earlier traces are prefixes of later ones
\* and branches not entered add nothing.
C9_TraceAppendOnly ==
    [][IF OpStep("generate_random")
       THEN /\ random_numbers' = Append(random_numbers, stack'[Depth].result)
            /\ exc' = NoExc
       ELSE random_numbers' = random_numbers]_vars

\* Inside a branch a draw that names no variable has been recorded after
\* an earlier one.
C9_Witness ==
    /\ Depth = 2
    /\ TypeOf(Top.op) = "generate_random"
    /\ Named(Top.op) = {}
    /\ Len(random_numbers) = 2
    /\ random_numbers[2] = Top.result

\* C10: every value generate_random returns, hence every trace entry, is
\* in [0, 1): never 1.0.
C10_DrawBelowOne ==
    \A i \in DOMAIN random_numbers :
        /\ LessEq(Zero, random_numbers[i])
        /\ Less(random_numbers[i], Fin(Unit))

\* x is rounded to the grid: a finite x is a whole number of ticks.
OnGrid(x) == IsFin(x) => x.n % Tick = 0

\* C11 as stated: whenever execute_operations succeeds, the value it
\* returns is rounded to the grid, also when it comes from an assign of a
\* literal with more decimals than the grid has.
C11_EngineResultRounded == pc = "returned" => OnGrid(result)

\* C11 amended: the value generate_random, multiply, divide and square_root
\* produce is rounded to the grid; execute_operations returns an assigned
\* value as it was resolved; the result the handler responds with, rounded
\* by the handler itself, is on the grid.
C11_ResponseRounded ==
    [][/\ \A type \in {"generate_random", "multiply", "divide", "square_root"} :
            (OpStep(type) /\ exc' = NoExc) => OnGrid(stack'[Depth].result)
       /\ (OpStep("assign") /\ exc' = NoExc) =>
            stack'[Depth].result = Resolved(variables, Get(StepOp, "value"))
       /\ response'.status_code = 200 =>
            /\ OnGrid(response'.result)
            /\ pc = "returned" => response'.result = Round10(result)]_vars

\* A run whose value was an assigned literal off the grid has been answered
\* with the rounded value; the environment still holds the literal.
C11_Witness ==
    /\ pc = "sent"
    /\ response.status_code = 200
    /\ DOMAIN variables = {"x"}
    /\ variables["x"] = Fin(Unit + 1)
    /\ ~OnGrid(variables["x"])
    /\ response.result = Fin(Unit)
    /\ random_numbers = <<>>

\* The names the activations in `frames` have assigned so far.
WrittenBy(frames) == UNION {frames[i].written : i \in DOMAIN frames}
\* The environment of a running engine binds the names its own operations
\* assigned, and no other.
OwnNamesOnly ==
    /\ pc = "exec" => DOMAIN variables = WrittenBy(stack)
    /\ (other # NoRequest /\ other.pc = "exec") =>
         DOMAIN other.variables = WrittenBy(other.stack)
\* The step belongs to the running request; the other stays suspended.
OwnStep == request' = request

\* C12: with two requests in flight, their steps interleaved in any order,
\* each request builds an engine with an empty environment and an empty
\* trace; a step of one request leaves the other's engine as it was, and
\* is a step the request would take from the same state of its own if it
\* ran alone, so its result is that of running alone with the same draws;
\* a request resumes in exactly the state it was suspended in; each
\* environment binds only names its own operations assigned, and each
\* trace grows only by the engine's own draws.
C12_EnginesIsolated ==
    /\ []OwnNamesOnly
    /\ [][/\ (OwnStep /\ pc = "idle") =>
               /\ variables' = EmptyDict
               /\ random_numbers' = <<>>
          /\ OwnStep =>
               /\ other' = other
               /\ Next
               /\ \/ random_numbers' = random_numbers
                  \/ /\ OpStep("generate_random")
                     /\ random_numbers' =
                            Append(random_numbers, stack'[Depth].result)
          /\ ~OwnStep =>
               /\ Suspended' = other
               /\ other' = Suspended]_vars

\* Both requests are in the middle of their lists, the second one running;
\* each engine holds its own x and the first one its own draw.
C12_Witness ==
    /\ request = 2
    /\ pc = "exec"
    /\ exc = NoExc
    /\ Depth = 1
    /\ Top.idx = 1
    /\ DOMAIN variables = {"x"}
    /\ variables["x"] = Fin(2 * Unit)
    /\ random_numbers = <<>>
    /\ other.pc = "exec"
    /\ Len(other.stack) = 1
    /\ other.stack[1].idx = 2
    /\ DOMAIN other.variables = {"x"}
    /\ other.variables["x"] = Fin(Unit + 1)
    /\ Len(other.random_numbers) = 1

RecognizedTypes ==
    {"generate_random", "multiply", "divide", "square_root", "conditional",
     "assign"}
\* The current activation goes past an operation of unrecognized type.
UnknownStep ==
    /\ Running
    /\ Len(stack') = Depth
    /\ stack'[Depth].idx = Top.idx + 1
    /\ TypeOf(StepOp) \notin RecognizedTypes

\* C13: an operation of unrecognized type is a no-op: the step past it
\* raises nothing and leaves the running result, the environment (also
\* when the operation names a variable), the trace, the rest of the list
\* and every enclosing activation as they were, so the run goes on from
\* the state it would be in without the operation.
C13_UnknownIsNoOp ==
    [][UnknownStep =>
         /\ exc' = NoExc
         /\ variables' = variables
         /\ random_numbers' = random_numbers
         /\ stack'[Depth].result = Top.result
         /\ stack'[Depth].written = Top.written
         /\ stack'[Depth].operations = Top.operations
         /\ \A i \in 1..(Depth - 1) : stack'[i] = stack[i]
         /\ <<pc', result', response'>> = <<pc, result, response>>]_vars

\* A branch went past an unrecognized operation and then executed the
\* draw that follows it.
C13_Witness ==
    /\ exc = NoExc
    /\ Depth = 2
    /\ Top.operations = <<[type |-> "print"], [type |-> "generate_random"]>>
    /\ Top.idx = 2
    /\ Top.values[1] = None
    /\ Top.values[2] = Top.result
    /\ random_numbers = <<Top.result>>

\* C14: the engine of src/main.py and the engine of
\* app/services/execution_engine.py are equivalent: from the same state, on
\* the same operation and the same draw, the step one takes is the step
\* the other takes, so that on every operation list they end with the same
\* value or the same error, the same environment and the same trace.
C14_EnginesEquivalent == [][Running => MainEngineStep]_vars

\* No operation of the list produced a value (the list may be empty).
NoValue(vals) == \A i \in DOMAIN vals : vals[i] = None

\* C15: when the selected branch returns, the conditional's result is the
\* branch call's return value, which becomes the running result of the
\* enclosing list and, when the conditional names a variable, that
\* variable's value; a branch that is empty or produced no value returns
\* 0.0, which replaces an earlier running result and overwrites the named
\* variable.
C15_ConditionalResult ==
    [][BranchReturns =>
         LET conditional == stack[Depth - 1]
             ret == IF NoValue(Top.values) THEN Zero ELSE Top.result
         IN  /\ stack'[Depth - 1].result = ret
             /\ stack'[Depth - 1].values = Append(conditional.values, ret)
             /\ stack'[Depth - 1].idx = conditional.idx
             /\ variables' = IF "variable" \in DOMAIN conditional.op
                             THEN [n \in DOMAIN variables \cup {conditional.op.variable} |->
                                      IF n = conditional.op.variable THEN ret
                                      ELSE variables[n]]
                             ELSE variables]_vars

\* After an assign of 0.5 to x, a conditional naming x whose branches are
\* both empty has yielded 0.0: the running result and x are 0.0.
C15_Witness ==
    /\ exc = NoExc
    /\ Depth = 1
    /\ TypeOf(Top.op) = "conditional"
    /\ Named(Top.op) = {"x"}
    /\ GetList(Top.op, "if_true") = <<>>
    /\ GetList(Top.op, "if_false") = <<>>
    /\ Top.values = <<Fin(Unit \div 2), Zero>>
    /\ Top.result = Zero
    /\ variables["x"] = Zero

\* The names whose binding the step adds or changes.
Changed ==
    {n \in DOMAIN variables' : n \notin DOMAIN variables \/ variables'[n] # variables[n]}
\* The current activation begins and ends one operation in this step.
LeafStep == Running /\ Len(stack') = Depth /\ stack'[Depth].idx = Top.idx + 1

\* C16: each operation changes only what it names.  The step of an
\* operation without `variable` leaves the environment unchanged, the step
\* of one with `variable` changes at most that key; resolving values and
\* evaluating a condition, up to entering the branch or raising, change
\* neither environment nor trace; a conditional's own effect, when its
\* branch has returned, is at most its named key; only the step of a
\* generate_random changes the trace; no step removes a key.
C16_FrameEffects ==
    [][/\ DOMAIN variables \subseteq DOMAIN variables'
       /\ LeafStep => Changed \subseteq Named(StepOp)
       /\ (Running /\ exc' # NoExc) =>
            variables' = variables /\ random_numbers' = random_numbers
       /\ ConditionalEnters =>
            variables' = variables /\ random_numbers' = random_numbers
       /\ BranchReturns =>
            /\ Changed \subseteq Named(stack[Depth - 1].op)
            /\ random_numbers' = random_numbers
       /\ random_numbers' # random_numbers => OpStep("generate_random")]_vars

\* An assign to the variable named 5 has run while x was bound: x is still
\* bound, to another value.
C16_Witness ==
    /\ exc = NoExc
    /\ Depth = 1
    /\ TypeOf(Top.op) = "assign"
    /\ Named(Top.op) = {"5"}
    /\ DOMAIN variables = {"x", "5"}
    /\ variables["x"] # variables["5"]
    /\ Top.idx = 2

Max(S) == CHOOSE m \in S : \A n \in S : n <= m
Range(list) == {list[i] : i \in DOMAIN list}
\* How deep conditionals nest in an operation: 0 for any other operation.
RECURSIVE Nesting(_)
Nesting(op) ==
    IF TypeOf(op) # "conditional" THEN 0
    ELSE 1 + Max({0} \cup {Nesting(o) : o \in Range(GetList(op, "if_true"))
                                              \cup Range(GetList(op, "if_false"))})
\* The recursion below each activation is no deeper than the conditionals
\* nest in the operation the activation is executing; no activation has
\* begun more operations than its list holds.
DepthBounded ==
    \A i \in 1..Depth :
        /\ Depth - i <= Nesting(stack[i].op)
        /\ stack[i].idx <= IF i = 1 THEN MaxLen ELSE Len(stack[i].operations)
\* A step executes the next operation of the running list, enters a branch
\* of the conditional just begun, or returns to the caller, which does not
\* go back: no operation is executed twice.
EachOnce ==
    Running =>
        /\ \A i \in 1..(Depth - 1) :
             i <= Len(stack') =>
                 /\ stack'[i].operations = stack[i].operations
                 /\ stack'[i].idx = stack[i].idx
                 /\ stack'[i].op = stack[i].op
        /\ Len(stack') >= Depth =>
             /\ stack'[Depth].idx = Top.idx + 1
             /\ Depth > 1 => StepOp = Top.operations[Top.idx + 1]
        /\ Len(stack') = Depth + 1 =>
             /\ TypeOf(StepOp) = "conditional"
             /\ stack'[Depth + 1].idx = 0
             /\ EnteredList \in {GetList(StepOp, "if_true"), GetList(StepOp, "if_false")}
        /\ Len(stack') \in {0, Depth - 1, Depth, Depth + 1}
\* The run has ended: completed with a value, or failed with an error.
Completed == pc \in {"returned", "sent"} /\ exc = NoExc
HasFailed == exc # NoExc

\* C17: a run of execute_operations terminates, completed or failed and
\* never both; it executes the operations of its lists one after the
\* other, none twice and no more than a list holds; the recursion is never
\* deeper than the conditionals nest in the input.
C17_Terminates ==
    /\ (pc = "exec") ~> (Completed \/ HasFailed)
    /\ [](~(Completed /\ HasFailed))
    /\ [](HasFailed => pc \in {"exec", "sent"} /\ response.status_code # 200)
    /\ []DepthBounded
    /\ [][EachOnce]_vars

\* Two conditionals deep, the innermost list has been executed to its end:
\* the recursion is as deep as the input nests.
C17_Witness ==
    /\ exc = NoExc
    /\ Depth = 3
    /\ Nesting(stack[1].op) = 2
    /\ Len(Top.operations) > 0
    /\ Top.idx = Len(Top.operations)

====
